---- MODULE Spec2Model ----
(***************************************************************************)
(* hooksim: the issue-event poller (package poller), its cursor store, the *)
(* synthesized-webhook dispatch and the inbound relay (package webhook),   *)
(* and the configuration they read (package config).                       *)
(***************************************************************************)
EXTENDS Integers, Sequences, FiniteSets, TLC

\* ------------------------------------------------------------------ bounds
\* Largest event id the upstream serves.
MaxId == 3
\* Largest number of records on one page of the event history.
PageLen == 2
\* Largest final page number a Link header names.
MaxPage == 2

\* Largest number of hooks of the account a configuration file is drawn with.
MaxHooks == 2

\* Largest marker a cursor is saved with.
MaxMarker == 12
\* The events the feed of the timestamp reconcilers comes to hold, and the
\* seconds their creation times are drawn from.
MaxFeed == 4
MaxTs == 2

\* --------------------------------------------------------- program constants
NL == "\n"
SP == " "
DigitChars == <<"0", "1", "2", "3", "4", "5", "6", "7", "8", "9">>

\* --------------------------------------------------------------- utilities
SeqsUpTo(S, n) == UNION {[1..k -> S] : k \in 0..n}

Max2(a, b) == IF a > b THEN a ELSE b

RECURSIVE SeqToSet(_)
SeqToSet(s) == IF s = <<>> THEN {} ELSE {Head(s)} \cup SeqToSet(Tail(s))

\* ------------------------------------------------------------ config.Load
\* A hook as config.Load leaves it: an event list holding "*" becomes the
\* one-element wildcard list, an empty list becomes the default ["push"].
NormalizeEvents(events) ==
    IF \E i \in 1..Len(events) : events[i] = "*" THEN <<"*">>
    ELSE IF Len(events) = 0 THEN <<"push">>
    ELSE events

LoadHook(hook) == [hook EXCEPT !.Events = NormalizeEvents(hook.Events)]

LoadAccount(acct) ==
    [acct EXCEPT !.Hooks = [j \in 1..Len(acct.Hooks) |-> LoadHook(acct.Hooks[j])]]

Load(raw) == [i \in 1..Len(raw) |-> LoadAccount(raw[i])]

\* ------------------------------------------------- the persisted record
NoFile == <<"ENOENT">>

\* The last decimal digit alone.
FormatUintUnits(n) == <<DigitChars[(n % 10) + 1]>>

RECURSIVE FormatUint(_)
\* fmt's %v of a uint64: its decimal digits.
FormatUint(n) ==
    IF n < 10 THEN <<DigitChars[n + 1]>>
    ELSE FormatUint(n \div 10) \o <<DigitChars[(n % 10) + 1]>>

DigitValue(c) == CHOOSE d \in 0..9 : DigitChars[d + 1] = c

IsDigit(c) == \E d \in 0..9 : DigitChars[d + 1] = c

RECURSIVE DigitsValue(_, _)
DigitsValue(s, acc) ==
    IF s = <<>> THEN acc ELSE DigitsValue(Tail(s), acc * 10 + DigitValue(Head(s)))

\* strconv.ParseUint(s, 10, 64): ok is FALSE on an empty string or a non-digit.
ParseUint(s) ==
    IF s # <<>> /\ \A i \in 1..Len(s) : IsDigit(s[i])
    THEN [ok |-> TRUE, value |-> DigitsValue(s, 0)]
    ELSE [ok |-> FALSE, value |-> 0]

RECURSIVE TrimLeft(_)
TrimLeft(s) ==
    IF s # <<>> /\ Head(s) \in {NL, SP} THEN TrimLeft(Tail(s)) ELSE s

RECURSIVE TrimRight(_)
TrimRight(s) ==
    IF s # <<>> /\ s[Len(s)] \in {NL, SP} THEN TrimRight(SubSeq(s, 1, Len(s) - 1)) ELSE s

\* A line kept as it was read.
Untrimmed(s) == s

\* strings.Trim(s, "\n ")
Trim(s) == TrimRight(TrimLeft(s))

\* A read for which the end of the buffer ends a line as a newline does.
ReadStringToEnd(buf) ==
    IF \E i \in 1..Len(buf) : buf[i] = NL
    THEN LET k == CHOOSE i \in 1..Len(buf) :
                      buf[i] = NL /\ \A j \in 1..(i - 1) : buf[j] # NL
         IN [ok |-> TRUE, line |-> SubSeq(buf, 1, k), rest |-> SubSeq(buf, k + 1, Len(buf))]
    ELSE [ok |-> TRUE, line |-> buf, rest |-> <<>>]

\* bytes.Buffer.ReadString('\n'): the bytes up to and including the first
\* newline and what is left; ok is FALSE when the buffer holds no newline.
ReadString(buf) ==
    IF \E i \in 1..Len(buf) : buf[i] = NL
    THEN LET k == CHOOSE i \in 1..Len(buf) :
                      buf[i] = NL /\ \A j \in 1..(i - 1) : buf[j] # NL
         IN [ok |-> TRUE, line |-> SubSeq(buf, 1, k), rest |-> SubSeq(buf, k + 1, Len(buf))]
    ELSE [ok |-> FALSE, line |-> buf, rest |-> <<>>]

ZeroLastAccess == [ETag |-> <<>>, EventID |-> 0]

\* restoreLastAccess: the cursor a persisted record yields; the zero cursor
\* when the record is missing, short or not decimal.
restoreLastAccess(content) ==
    IF content = NoFile THEN ZeroLastAccess
    ELSE LET l1 == ReadString(content) IN
         IF ~l1.ok THEN ZeroLastAccess
         ELSE LET l2 == ReadString(l1.rest) IN
              IF ~l2.ok THEN ZeroLastAccess
              ELSE LET id == ParseUint(Trim(l2.line)) IN
                   IF ~id.ok THEN ZeroLastAccess
                   ELSE [ETag |-> Trim(l1.line), EventID |-> id.value]

\* fmt.Sprintf("%v\n%v\n", a.ETag, a.EventID)
RecordContent(a) == a.ETag \o <<NL>> \o FormatUint(a.EventID) \o <<NL>>

\* What a call of storeLastAccess can do to the record.
WriteOutcomes == {"ok", "mkdirFail", "openFail", "truncated"}

\* storeLastAccess: the record after the call. MkdirAll failing returns before
\* the write; WriteFile failing either never opened the file or left it
\* truncated.
storeLastAccess(content, a, outcome) ==
    CASE outcome = "ok" -> RecordContent(a)
      [] outcome = "mkdirFail" -> content
      [] outcome = "openFail" -> content
      [] outcome = "truncated" -> <<>>

\* ------------------------------------------------------- the event history
EventTypes == {"renamed", "labeled"}

IssueOf(i) == <<"issue", i>>
ActorOf(i) == <<"actor", i>>

\* The records of the history. shape tells whether "id" is a JSON number
\* and "event" a JSON string, as they are in every record of the upstream.
Records ==
    {[id |-> i, event |-> t, issue |-> IssueOf(i), actor |-> ActorOf(i), shape |-> "ok"] :
        i \in 1..MaxId, t \in EventTypes}

\* JSON objects of another shape: "id" missing or not a number ("badId"),
\* "event" missing or not a string ("badEvent").
OddShapes == {"badId", "badEvent"}

OddRecords ==
    {[id |-> IF sh = "badId" THEN 0 ELSE i,
      event |-> IF sh = "badEvent" THEN "" ELSE "renamed",
      issue |-> IssueOf(i), actor |-> ActorOf(i), shape |-> sh] :
        i \in 1..2, sh \in OddShapes}

IdsOf(records) == {records[i].id : i \in 1..Len(records)}

\* A page of the history: records with pairwise distinct ids, in any order.
Pages ==
    {p \in SeqsUpTo(Records, PageLen) :
        \A i, j \in 1..Len(p) : i # j => p[i].id # p[j].id}

\* The pages that hold renames only.
RenamePages == {p \in Pages : \A i \in 1..Len(p) : p[i].event = "renamed"}

\* Pages of at most two objects, renames of the two oldest ids or objects of
\* another shape.
ShapePages ==
    {p \in SeqsUpTo({r \in Records : r.id <= 2 /\ r.event = "renamed"} \cup OddRecords, 2) :
        \A i, j \in 1..Len(p) : i # j => p[i].issue # p[j].issue}

\* The ETag header of a page-1 response (absent, or a validator), and the
\* one a later page carries.
ETagValues == {<<>>, <<"a">>}

\* No ETag header, and a header value with a space inside.
SpacedETagValues == {<<>>, <<"a", SP, "1">>}
LaterETag == <<"b">>

\* The Link header of a page-1 response, each entry reduced to its page=
\* parameter: absent, or rel="next" and rel="last".
Links == {<<>>} \cup {<<2, n>> : n \in 2..MaxPage}

\* The Link header of a later page: rel="prev", "next", "last", "first".
LaterLink(page, last) ==
    IF page < last THEN <<page - 1, page + 1, last, 1>> ELSE <<page - 1, 1>>

\* A body that cannot be read and a body that is no JSON array (the body of
\* an error status is a JSON object).
ErrorResponses ==
    {[etag |-> <<>>, link |-> <<>>, kind |-> k, records |-> <<>>] :
        k \in {"readErr", "badJSON"}}

\* The responses other than 304 the upstream can give to the request for
\* `page`, with a body among `pages` and an ETag among `etags`, `used` being
\* the ids it has served in
\* this cycle and `last` the final page it announced: an event is served on
\* one page only, and a history of several pages has a first page that is not
\* empty.
ResponsesFor(pages, etags, page, used, last) ==
    ErrorResponses \cup
    (IF page = 1
     THEN UNION {{[etag |-> t, link |-> l, kind |-> "json", records |-> p] :
                     t \in etags, p \in {q \in pages : l # <<>> => q # <<>>}} :
                 l \in Links}
     ELSE {[etag |-> LaterETag, link |-> LaterLink(page, last), kind |-> "json",
            records |-> p] :
              p \in {q \in pages : IdsOf(q) \cap used = {}}})

\* ------------------------------------------------------------ parseResponse
\* The stop test without its zero-marker disjunct.
StopConditionNoZero(lastID, curID) == lastID >= curID

\* The stop test with a strict comparison.
StopConditionStrict(lastID, curID) == lastID > curID \/ lastID = 0

\* The stop test of the scan loop.
StopCondition(lastID, curID) == lastID >= curID \/ lastID = 0

\* The id read last, whatever was read before.
NextLatestLast(latestID, curID) == curID

\* The running maximum of the ids read.
NextLatest(latestID, curID) == IF curID > latestID THEN curID ELSE latestID

IssueActorPair(v) == [Issue |-> v.issue, Actor |-> v.actor]

RECURSIVE ScanRecords(_, _, _, _)
\* The loop of parseResponse over the decoded records. The type assertions
\* event["id"].(float64) and event["event"].(string) come before the stop
\* test and panic on an object of another shape.
ScanRecords(result, lastID, latestID, pairs) ==
    IF result = <<>>
    THEN [found |-> FALSE, latestID |-> latestID, pairs |-> pairs, err |-> FALSE,
          panic |-> FALSE]
    ELSE LET v == Head(result)
             curID == v.id
             latest == NextLatest(latestID, curID)
         IN IF v.shape # "ok"
            THEN [found |-> FALSE, latestID |-> latestID, pairs |-> pairs, err |-> FALSE,
                  panic |-> TRUE]
            ELSE IF StopCondition(lastID, curID)
            THEN [found |-> TRUE, latestID |-> latest, pairs |-> pairs, err |-> FALSE,
                  panic |-> FALSE]
            ELSE ScanRecords(Tail(result), lastID, latest,
                     IF v.event = "renamed"
                     THEN Append(pairs, IssueActorPair(v))
                     ELSE pairs)

parseResponse(lastID, resp) ==
    IF resp.kind # "json"
    THEN [found |-> FALSE, latestID |-> 0, pairs |-> <<>>, err |-> TRUE, panic |-> FALSE]
    ELSE ScanRecords(resp.records, lastID, 0, <<>>)

\* getMaxPage: the page= parameter of the second comma-separated entry.
getMaxPage(link) == link[2]

\* ------------------------------------------------------------ getWebHookURL
IsWildcard(hook) == Len(hook.Events) = 1 /\ hook.Events[1] = "*"

\* The match without the test of the repository.
HookMatchesAnyRepo(hook, repo, event) ==
    IsWildcard(hook) \/ \E k \in 1..Len(hook.Events) : hook.Events[k] = event

HookMatches(hook, repo, event) ==
    /\ hook.Repo = repo
    /\ (IsWildcard(hook) \/ \E k \in 1..Len(hook.Events) : hook.Events[k] = event)

NoTarget == [found |-> FALSE, URL |-> "", Secret |-> ""]

RECURSIVE FirstHook(_, _, _)
\* The inner loop of getWebHookURL: the first hook of the account that matches.
FirstHook(hooks, repo, event) ==
    IF hooks = <<>> THEN NoTarget
    ELSE IF HookMatches(Head(hooks), repo, event)
         THEN [found |-> TRUE, URL |-> Head(hooks).URL, Secret |-> Head(hooks).Secret]
         ELSE FirstHook(Tail(hooks), repo, event)

RECURSIVE getWebHookURL(_, _, _, _)
\* getWebHookURL: the (url, secret) of the first matching hook over the
\* accounts in order, ("", "") when none matches.
getWebHookURL(accts, owner, repo, event) ==
    IF accts = <<>> THEN NoTarget
    ELSE IF Head(accts).User # owner
         THEN getWebHookURL(Tail(accts), owner, repo, event)
         ELSE LET t == FirstHook(Head(accts).Hooks, repo, event) IN
              IF t.found THEN t ELSE getWebHookURL(Tail(accts), owner, repo, event)

\* ---------------------------------------------- TriggerIssueRenamedWebHook
\* getRepoContent: the allow-listed repository object, "{}" when the fetch,
\* the read or the decoding fails.
MetaOutcomes == {"ok", "transportErr", "readErr", "badJSON"}

\* A getRepoContent that gives JSON null when it fails.
getRepoContentNull(outcome) == IF outcome = "ok" THEN "repoFields" ELSE "null"

getRepoContent(outcome) == IF outcome = "ok" THEN "repoFields" ELSE "{}"

\* The body of a synthesized webhook.
Payload(pair, repoContent) ==
    [action |-> "updated", issue |-> pair.Issue, repository |-> repoContent,
     sender |-> pair.Actor]

NoSignature == <<>>

\* hmac.New(sha1.New, key), Write(message), Sum(nil) in hex: a value that
\* names its key and its message, different for different ones.
HmacSha1Hex(key, message) == <<"hmac-sha1", key, message>>

\* The header signed over the issue alone.
SignatureOfIssue(secret, payload) ==
    IF secret # "" THEN <<"sha1=", HmacSha1Hex(secret, payload.issue)>> ELSE NoSignature

\* The X-Hub-Signature header: "sha1=" and the HMAC-SHA1 of the payload
\* under the secret, absent when the secret is empty.
Signature(secret, payload) ==
    IF secret # "" THEN <<"sha1=", HmacSha1Hex(secret, payload)>> ELSE NoSignature

\* ------------------------------------------------------------------- state
Owners == {"o", "p"}
RepoNames == {"r", "q"}
FileKeys == Owners \X RepoNames

VARIABLES
    Accounts,   \* config.Accounts, as Load left it
    Repos,      \* Poller.Repos: owner -> repo -> LastAccess
    files,      \* the data directory: <<owner, repo>> -> record content
    pc,         \* where the goroutine of Run stands
    cur,        \* <<owner, repo>> of the visit in progress
    todo,       \* the entries the current pass of Run has still to visit
    poll,       \* the locals of pollRepo
    trig,       \* the locals of TriggerIssueRenamedWebHook and what it sent
    env,        \* the upstream, as far as the cycle in progress has been served it
    obs,        \* what the cycle in progress (or the last one) did and saw
    life,       \* per repository, what happened over all cycles
    track,      \* what the behaviour records: which observer variables
    hand,       \* the request handleHook served last, and what it did with it
    store,      \* the last call of storeLastAccess or restoreLastAccess
    shut,       \* where main stands, the listener, and who touched Repos
    net,        \* the HTTP exchanges of the cycle in progress (or the last one)
    stamp       \* the reconciler that keeps a timestamp: feed, cursor, locals

vars ==
    <<Accounts, Repos, files, pc, cur, todo, poll, trig, env, obs, life, track, hand, store,
      shut, net, stamp>>

\* The users of the accounts, and for each the account that New leaves in
\* Repos and Clients: a later account of the same user replaces an earlier.
Users(accts) == {accts[i].User : i \in 1..Len(accts)}

LastAccountOf(accts, u) ==
    accts[CHOOSE i \in 1..Len(accts) :
              accts[i].User = u /\ \A j \in (i + 1)..Len(accts) : accts[j].User # u]

HookRepos(acct) == {acct.Hooks[j].Repo : j \in 1..Len(acct.Hooks)}

\* New: the cursor map restored from the data directory.
New(accts, fs) ==
    [u \in Users(accts) |->
        [r \in HookRepos(LastAccountOf(accts, u)) |-> restoreLastAccess(fs[<<u, r>>])]]

RepoKeys(repos) ==
    {k \in FileKeys : k[1] \in DOMAIN repos /\ k[2] \in DOMAIN repos[k[1]]}

RECURSIVE NumRepo(_)
\* New: NumRepo grows, account after account, by the size of the map the
\* account has just been given, also when that map replaces the map of an
\* earlier account of the same user.
NumRepo(accts) ==
    IF accts = <<>> THEN 0
    ELSE Cardinality(HookRepos(Head(accts))) + NumRepo(Tail(accts))

\* Run: delay := p.Interval / time.Duration(p.NumRepo), an integer division
\* that panics when NumRepo is 0. Durations are counted in milliseconds.
Delay(interval, numRepo) ==
    [fault |-> numRepo = 0,
     delay |-> IF numRepo = 0 THEN 0 ELSE (interval * 1000) \div numRepo]

IdlePoll ==
    [page |-> 0, etag |-> <<>>, latestID |-> 0, maxPage |-> 0, pairs |-> <<>>,
     conditional |-> FALSE]

IdleTrig ==
    [url |-> "", secret |-> "", queue |-> <<>>, posts |-> <<>>, lastPost |-> "none",
     metas |-> <<>>]

IdleEnv == [used |-> {}, last |-> 0]

IdleHand == [req |-> <<>>, repo |-> "", owner |-> "", posts |-> <<>>, result |-> "none"]

IdleStore == [op |-> "none", key |-> <<"o", "r">>, cursor |-> ZeroLastAccess,
              outcome |-> "none"]

IdleShut ==
    [main |-> "serving", server |-> "up", reposBy |-> {},
     visits |-> [k \in FileKeys |-> 0], since |-> [p \in FileKeys \X FileKeys |-> 0]]

IdleObs ==
    [outcome |-> "none", fetches |-> 0, start |-> ZeroLastAccess, startFile |-> NoFile,
     seenRenamed |-> <<>>, earlyRename |-> FALSE, maxRead |-> 0, firstId |-> 0,
     pageOneETag |-> <<>>, announced |-> 0, result |-> <<>>, odd |-> FALSE]

NewLife ==
    [emitted |-> {}, dup |-> FALSE, reseen |-> FALSE, fileDecreased |-> FALSE,
     memDecreased |-> FALSE, lost |-> {}, relost |-> FALSE, lostServed |-> FALSE,
     writeFailed |-> FALSE, updated |-> FALSE]

\* The configuration the poller runs with: one account, two hooks on one
\* repository, the first subscribed to everything, the second to "issues".
PollerRawConfig ==
    <<[User |-> "o", Token |-> "t",
       Hooks |-> <<[Repo |-> "r", Events |-> <<"*">>, URL |-> "u1", Secret |-> "k"],
                   [Repo |-> "r", Events |-> <<"issues">>, URL |-> "u2", Secret |-> ""]>>]>>

\* No response in hand.
NoResponse == [array |-> TRUE, records |-> <<>>, link |-> 0]

\* The reconciler with a timestamp before its first cycle: nothing upstream,
\* the cursor restoreLastAccess gives when there is no record.
IdleStamp ==
    [feed |-> <<>>, last |-> [ETag |-> <<>>, Timestamp |-> 0], pc |-> "idle",
     page |-> 0, maxPage |-> 0, etag |-> <<>>, latestTs |-> 0, pairs |-> <<>>,
     resp |-> NoResponse, start |-> 0, outcome |-> "none", scanned |-> {},
     hot |-> {}, boundary |-> {}, returned |-> {}, reported |-> {}]

\* The process once main has loaded the configuration: New has restored the
\* cursors from an empty data directory, Run has not visited anything and
\* the listener has served nothing.
Started ==
    /\ files = [k \in FileKeys |-> NoFile]
    /\ Repos = New(Accounts, files)
    /\ pc = "select"
    /\ cur = <<"o", "r">>
    /\ todo = {}
    /\ poll = IdlePoll
    /\ trig = IdleTrig
    /\ env = IdleEnv
    /\ obs = IdleObs
    /\ life = [k \in FileKeys |-> NewLife]
    /\ hand = IdleHand
    /\ store = IdleStore
    /\ shut = IdleShut
    /\ net = <<>>
    /\ stamp = IdleStamp

InitPoller == Accounts = Load(PollerRawConfig) /\ Started

Init == InitPoller /\ track = "cycle"

\* ------------------------------------------------ what a cycle is served
\* The stop condition as the design states it: a record at or below a
\* non-zero stored marker.
AlreadySeen(marker, id) == marker # 0 /\ id <= marker

RECURSIVE BeforeStop(_, _)
\* The records of a page that come before the first already-seen record.
BeforeStop(marker, records) ==
    IF records = <<>> \/ AlreadySeen(marker, Head(records).id) THEN <<>>
    ELSE <<Head(records)>> \o BeforeStop(marker, Tail(records))

\* The records of a page the scan reads: those before the stop, and the
\* record it stops at.
ReadByScan(marker, records) ==
    LET n == Len(BeforeStop(marker, records)) IN
    SubSeq(records, 1, IF n < Len(records) THEN n + 1 ELSE n)

RECURSIVE MaxIdOf(_)
MaxIdOf(records) ==
    IF records = <<>> THEN 0 ELSE Max2(Head(records).id, MaxIdOf(Tail(records)))

RECURSIVE RenamedOf(_)
RenamedOf(records) ==
    IF records = <<>> THEN <<>>
    ELSE (IF Head(records).event = "renamed" THEN <<Head(records)>> ELSE <<>>)
         \o RenamedOf(Tail(records))

IdOfPair(pair) == pair.Issue[2]

PairIds(pairs) == {IdOfPair(pairs[i]) : i \in 1..Len(pairs)}

\* obs is recorded in the behaviours that track cycles, life in those that
\* track the repository over its cycles.
Observe(new) == IF track \in {"cycle", "worker", "shape", "fetch"} THEN new ELSE obs
Remember(new) ==
    IF track \in {"life", "handoff"} THEN new
    ELSE IF track = "restart"
    THEN [k \in FileKeys |-> [life[k] EXCEPT !.writeFailed = new[k].writeFailed,
                                              !.updated = new[k].updated]]
    ELSE life

\* The events handed to a dispatch that did not deliver them (no target, or
\* a POST that failed) are remembered in the behaviours that follow the
\* hand-off from pollRepo to the dispatch.
Lost(ids) ==
    IF track = "handoff" THEN [life EXCEPT ![cur].lost = @ \cup ids] ELSE life

\* The bodies the upstream serves. A behaviour that tracks the repository
\* over its cycles is served renames only: a record of another type moves the
\* marker as a rename of the same id does and is never returned.
\* The bodies served to the behaviours that follow the scheduling of the
\* process: renames of the two oldest ids, enough for a visit to return events.
SchedPages == {p \in RenamePages : \A i \in 1..Len(p) : p[i].id <= 2}

ServedPages ==
    IF track \in {"life", "worker"} THEN RenamePages
    ELSE IF track \in {"sched", "handoff", "pass", "frame", "restart"} THEN SchedPages
    ELSE IF track = "shape" THEN ShapePages
    ELSE Pages

\* The ETag headers of page 1. A behaviour that tracks the repository over
\* its cycles is served a validator with every page 1, as the upstream does.
ServedETags ==
    IF track = "cycle" THEN ETagValues
    ELSE IF track = "restart" THEN SpacedETagValues
    ELSE {<<"a">>}

\* What can become of a write of the record. The behaviours that follow the
\* scheduling of the process have a data directory whose writes succeed.
ServedWriteOutcomes ==
    IF track \in {"sched", "pass"} THEN {"ok"}
    ELSE IF track = "frame" THEN {"ok", "openFail", "truncated"}
    ELSE IF track = "restart" THEN {"ok", "truncated"}
    ELSE WriteOutcomes

\* shut.reposBy names the goroutines that have read or written Poller.Repos
\* since New returned; it is recorded in the behaviours that follow the
\* scheduling of the process.
Touched(goroutines) ==
    IF track = "sched" THEN [shut EXCEPT !.reposBy = @ \cup goroutines] ELSE shut

\* The behaviours that follow the passes of Run count, for each entry of
\* Repos, the visits it is ahead of the entry visited least (visits), and for
\* each pair of entries the visits of the second since the last visit of the
\* first (since). Both stop counting at MaxCount.
MaxCount == 3

Counted(n) == IF n > MaxCount THEN MaxCount ELSE n

Visited(k) ==
    LET keys == RepoKeys(Repos)
        raw == [j \in FileKeys |-> IF j = k THEN shut.visits[j] + 1 ELSE shut.visits[j]]
        least == CHOOSE m \in 0..(MaxCount + 1) :
                    /\ \E j \in keys : raw[j] = m
                    /\ \A j \in keys : raw[j] >= m
    IN [shut EXCEPT
           !.visits = [j \in FileKeys |-> IF j \in keys THEN Counted(raw[j] - least)
                                          ELSE 0],
           !.since = [p \in FileKeys \X FileKeys |->
                         IF p[1] = k THEN 0
                         ELSE IF p[2] = k THEN Counted(@[p] + 1)
                         ELSE @[p]]]

Polled(k) == IF track = "pass" THEN Visited(k) ELSE Touched({"run"})

\* A range over the map that offers again the entry it has just visited.
RestOfPassAll(entries, k) == entries

\* The range over Repos and over Repos[owner]: the entries of the pass that
\* are still to come once k has been visited.
RestOfPass(entries, k) == entries \ {k}

\* ------------------------------------------------------------------ pollRepo
LastAccessOf(k) == Repos[k[1]][k[2]]

\* net is recorded in the behaviours that follow the HTTP exchanges of the
\* cycles: one entry per request, with the If-None-Match header it carried
\* (<<>> for none), whether a response was obtained, whether its body has
\* been closed, and whether the body held a record at or below the non-zero
\* stored marker.
Exchange(page, header) ==
    [page |-> page, ifNoneMatch |-> header, response |-> FALSE, closed |-> FALSE,
     stop |-> FALSE]

\* A new cycle sends its first request.
Opened(first) == IF track = "fetch" THEN <<first>> ELSE net

\* client.Do returned the response of the last request sent; `closes` tells
\* whether this turn of pollRepo calls resp.Body.Close on it, `stop` whether
\* its body held an already-seen record.
Received(closes, stop) ==
    IF track = "fetch"
    THEN [net EXCEPT ![Len(net)].response = TRUE, ![Len(net)].closed = closes,
                     ![Len(net)].stop = stop]
    ELSE net

\* The response is received and closed, and the request of the next page is
\* sent.
ReceivedAndSent(stop, next) ==
    IF track = "fetch" THEN Append(Received(TRUE, stop), next) ELSE net

\* A request that carries the stored validator whatever the page.
LaterPageHeaderStored(etag) == etag

\* If-None-Match of the request for page 1: the stored ETag when it is not
\* empty.
PageOneHeader(etag) == IF etag # <<>> THEN etag ELSE <<>>

\* If-None-Match of the request for a later page: the request is built anew
\* and no header is added.
LaterPageHeader(etag) == <<>>

\* Run takes the time.After branch of its select for the next entry of the
\* pass and pollRepo sends the page-1 request, conditional on a stored ETag.
\* The goroutine of Run reads Repos here and is the one that reads and writes
\* it in every later step of the visit.
PollStart ==
    /\ pc = "select"
    /\ LET cand == IF todo = {} THEN RepoKeys(Repos) ELSE todo IN
       \E k \in cand :
          /\ cur' = k
          /\ todo' = RestOfPass(cand, k)
          /\ shut' = Polled(k)
          /\ poll' = [IdlePoll EXCEPT !.page = 1,
                                      !.conditional = (LastAccessOf(k).ETag # <<>>)]
          /\ obs' = Observe([IdleObs EXCEPT !.outcome = "running", !.fetches = 1,
                                            !.start = LastAccessOf(k),
                                            !.startFile = files[k]])
          /\ net' = Opened(Exchange(1, PageOneHeader(LastAccessOf(k).ETag)))
    /\ pc' = "fetch"
    /\ trig' = IdleTrig
    /\ env' = IdleEnv
    /\ UNCHANGED <<Accounts, Repos, files, life, track, hand, store, stamp>>

\* An abandoned cycle that keeps what it had read so far as the cursor.
AbandonStores(outcome) ==
    /\ pc' = "select"
    /\ poll' = IdlePoll
    /\ obs' = Observe([obs EXCEPT !.outcome = outcome, !.result = <<>>])
    /\ env' = IdleEnv
    /\ Repos' = [Repos EXCEPT ![cur[1]][cur[2]] = [ETag |-> poll.etag,
                                                   EventID |-> poll.latestID]]
    /\ UNCHANGED <<Accounts, files, cur, todo, trig, life, track, hand, store, shut, stamp>>

\* pollRepo returns nil without touching the cursor.
Abandon(outcome) ==
    /\ pc' = "select"
    /\ poll' = IdlePoll
    /\ obs' = Observe([obs EXCEPT !.outcome = outcome, !.result = <<>>])
    /\ env' = IdleEnv
    /\ UNCHANGED <<Accounts, Repos, files, cur, todo, trig, life, track, hand, store, shut,
                   stamp>>

\* client.Do returns an error, for page 1 or a later page.
FetchTransportError ==
    /\ pc = "fetch"
    /\ Abandon("error")
    /\ net' = net

\* A 304 that is taken for a page with no record and falls through to the
\* end of pollRepo.
FetchNotModifiedStores ==
    /\ pc = "fetch"
    /\ poll.page = 1
    /\ poll.conditional
    /\ pc' = "select"
    /\ poll' = IdlePoll
    /\ obs' = Observe([obs EXCEPT !.outcome = "notmodified", !.result = <<>>])
    /\ env' = IdleEnv
    /\ Repos' = [Repos EXCEPT ![cur[1]][cur[2]] = [ETag |-> <<>>, EventID |-> 0]]
    /\ files' = [files EXCEPT ![cur] = RecordContent([ETag |-> <<>>, EventID |-> 0])]
    /\ UNCHANGED <<Accounts, cur, todo, trig, life, track, hand, store, shut, net, stamp>>

\* The page-1 response has status 304: pollRepo closes the body and returns.
\* The upstream answers 304 only to a conditional request.
FetchNotModified ==
    /\ pc = "fetch"
    /\ poll.page = 1
    /\ poll.conditional
    /\ Abandon("notmodified")
    /\ net' = Received(TRUE, FALSE)

\* The pairs pollRepo holds after a page on which the scan stopped, or any
\* page when the stored id is 0.
CollectOnBreak(pairs, pairsInPage) == pairs \o pairsInPage

\* The pairs pollRepo holds when it goes on to the next page.
CollectOnContinue(pairs, pairsInPage) == pairs

\* The cursor pollRepo stores at the end of a cycle.
NewLastAccess(etag, latestID) == [ETag |-> etag, EventID |-> latestID]

\* A cursor in memory that follows the record: replaced only when the write
\* succeeded.
CursorIfStored(old, a, outcome) == IF outcome = "ok" THEN a ELSE old

\* The cursor in memory at the end of a cycle: pollRepo assigns it before it
\* calls storeLastAccess, which returns nothing.
CursorAfterStore(old, a, outcome) == a

\* A data directory with one record per owner.
RecordPathOfOwner(owner, repo) == <<owner, "r">>

\* storeLastAccess: the record written is path.Join(DataDir, owner, repo).
RecordPath(owner, repo) == <<owner, repo>>

\* The end of pollRepo: the cursor is replaced in memory, storeLastAccess is
\* called, and Run goes on to TriggerIssueRenamedWebHook when pairs were found.
Finish(etag, latestID, pairs, seen, servedIds) ==
    \E w \in ServedWriteOutcomes :
       LET a == NewLastAccess(etag, latestID)
           content == storeLastAccess(files[cur], a, w)
           old == life[cur]
       IN /\ Repos' = [Repos EXCEPT ![cur[1]][cur[2]] =
                          CursorAfterStore(LastAccessOf(cur), a, w)]
          /\ files' = [files EXCEPT ![RecordPath(cur[1], cur[2])] = content]
          /\ obs' = Observe([seen EXCEPT !.outcome = "updated", !.result = pairs])
          /\ life' = Remember([life EXCEPT ![cur] =
                 [emitted |-> old.emitted \cup PairIds(pairs),
                  dup |-> old.dup \/ (PairIds(pairs) \cap old.emitted # {}),
                  reseen |-> old.reseen \/ (servedIds \cap old.emitted # {}),
                  fileDecreased |-> old.fileDecreased
                      \/ restoreLastAccess(content).EventID
                             < restoreLastAccess(files[cur]).EventID,
                  memDecreased |-> old.memDecreased
                      \/ a.EventID < LastAccessOf(cur).EventID,
                  lost |-> old.lost,
                  relost |-> old.relost \/ (PairIds(pairs) \cap old.lost # {}),
                  lostServed |-> old.lostServed \/ (servedIds \cap old.lost # {}),
                  writeFailed |-> old.writeFailed
                      \/ (track \in {"handoff", "restart"} /\ w # "ok"),
                  updated |-> old.updated \/ track = "restart"]])
          /\ poll' = IdlePoll
          /\ env' = IdleEnv
          /\ IF Len(pairs) > 0
             THEN /\ pc' = "trigger"
                  /\ trig' = [IdleTrig EXCEPT !.queue = pairs]
             ELSE /\ pc' = "select"
                  /\ trig' = IdleTrig
          /\ UNCHANGED <<Accounts, cur, todo, track, hand, store, shut, stamp>>

\* A response other than 304 arrives for the page requested: one turn of the
\* loop of pollRepo.
FetchPage ==
    /\ pc = "fetch"
    /\ \E resp \in ResponsesFor(ServedPages, ServedETags, poll.page, env.used, env.last) :
          LET lastID == LastAccessOf(cur).EventID
              etag == IF poll.page = 1 THEN resp.etag ELSE poll.etag
              pr == parseResponse(lastID, resp)
              maxPage == IF poll.maxPage = 0 /\ resp.link # <<>>
                         THEN getMaxPage(resp.link) ELSE poll.maxPage
              latestID == IF pr.latestID > poll.latestID
                          THEN pr.latestID ELSE poll.latestID
              served == [used |-> env.used \cup IdsOf(resp.records),
                         last |-> IF poll.page = 1 /\ resp.link # <<>>
                                  THEN resp.link[Len(resp.link)] ELSE env.last]
              seen == [obs EXCEPT
                  !.seenRenamed = @ \o RenamedOf(BeforeStop(obs.start.EventID,
                                                            resp.records)),
                  !.earlyRename = @ \/ (poll.page < served.last
                                           /\ RenamedOf(resp.records) # <<>>),
                  !.maxRead = Max2(@, MaxIdOf(ReadByScan(obs.start.EventID,
                                                         resp.records))),
                  !.firstId = IF poll.page = 1 /\ resp.records # <<>>
                              THEN resp.records[1].id ELSE @,
                  !.pageOneETag = IF poll.page = 1 THEN resp.etag ELSE @,
                  !.announced = served.last,
                  !.odd = @ \/ \E i \in 1..Len(resp.records) :
                                  resp.records[i].shape # "ok"]
              stop == \E i \in 1..Len(resp.records) :
                         AlreadySeen(lastID, resp.records[i].id)
          IN IF pr.panic
             THEN /\ pc' = "crashed"
                  /\ obs' = Observe([seen EXCEPT !.outcome = "panicked"])
                  /\ net' = Received(FALSE, stop)
                  /\ UNCHANGED <<Accounts, Repos, files, cur, todo, poll, trig, env, life,
                                 track, hand, store, shut, stamp>>
             ELSE IF pr.err
             THEN Abandon("error") /\ net' = Received(FALSE, stop)
             ELSE IF pr.found \/ lastID = 0
             THEN /\ Finish(etag, latestID, CollectOnBreak(poll.pairs, pr.pairs), seen,
                            served.used)
                  /\ net' = Received(FALSE, stop)
             ELSE IF poll.page + 1 > maxPage
             THEN /\ Finish(etag, latestID, CollectOnContinue(poll.pairs, pr.pairs), seen,
                            served.used)
                  /\ net' = Received(TRUE, stop)
             ELSE /\ net' = ReceivedAndSent(stop,
                                            Exchange(poll.page + 1,
                                                     LaterPageHeader(LastAccessOf(cur).ETag)))
                  /\ poll' = [poll EXCEPT !.page = @ + 1, !.etag = etag,
                                          !.latestID = latestID, !.maxPage = maxPage,
                                          !.pairs = CollectOnContinue(@, pr.pairs)]
                  /\ obs' = Observe([seen EXCEPT !.fetches = @ + 1])
                  /\ env' = served
                  /\ UNCHANGED <<Accounts, Repos, files, pc, cur, todo, trig, life, track,
                                 hand, store, shut, stamp>>

\* ---------------------------------------------- TriggerIssueRenamedWebHook
\* A Run that hands the pairs to a dispatch running on its own and goes back
\* to its select at once.
TriggerResolveAsync ==
    /\ pc = "trigger"
    /\ pc' = "select"
    /\ LET t == getWebHookURL(Accounts, cur[1], cur[2], "issues") IN
       trig' = [trig EXCEPT !.url = t.URL, !.secret = t.Secret]
    /\ UNCHANGED <<Accounts, Repos, files, cur, todo, poll, env, obs, life, track, hand,
                   store, shut, net, stamp>>

\* The call resolves its one target with event "issues" and returns when the
\* url is empty.
TriggerResolve ==
    /\ pc = "trigger"
    /\ LET t == getWebHookURL(Accounts, cur[1], cur[2], "issues") IN
       IF t.URL = ""
       THEN /\ pc' = "select"
            /\ trig' = [trig EXCEPT !.queue = <<>>]
            /\ life' = Lost(PairIds(trig.queue))
       ELSE /\ pc' = "post"
            /\ trig' = [trig EXCEPT !.url = t.URL, !.secret = t.Secret]
            /\ life' = life
    /\ UNCHANGED <<Accounts, Repos, files, cur, todo, poll, env, obs, track, hand, store,
                   shut, net, stamp>>

\* One turn of the loop over the renamed issues: the repository is fetched,
\* the payload is built, signed and posted. When client.Do fails the error
\* is logged and resp, which is nil, is dereferenced: the goroutine of Run
\* panics. Its deferred send on StopDoneCh then waits for a receiver that
\* main provides only after Stop has returned, so Run polls no more
\* ("crashed") while main and the listener go on.
PostEvent ==
    /\ pc = "post"
    /\ trig.queue # <<>>
    /\ \E m \in MetaOutcomes, d \in {"ok", "error"} :
          LET payload == Payload(Head(trig.queue), getRepoContent(m))
              post == [url |-> trig.url, event |-> "issues", body |-> payload,
                       signature |-> Signature(trig.secret, payload)]
          IN /\ trig' = [trig EXCEPT !.queue = Tail(@),
                                     !.posts = IF track \in {"cycle", "trigger"}
                                               THEN Append(@, post) ELSE @,
                                     !.metas = IF track = "trigger"
                                               THEN Append(@, m) ELSE @,
                                     !.lastPost = d]
             /\ pc' = IF d = "error" THEN "crashed"
                      ELSE IF Len(trig.queue) = 1 THEN "select" ELSE "post"
             /\ life' = IF d = "error" THEN Lost(PairIds(trig.queue)) ELSE life
    /\ UNCHANGED <<Accounts, Repos, files, cur, todo, poll, env, obs, track, hand, store,
                   shut, net, stamp>>

\* The process is started again on the same data directory: New restores the
\* cursors from the persisted records.
Restart ==
    /\ Repos' = New(Accounts, files)
    /\ pc' = "select"
    /\ todo' = {}
    /\ poll' = IdlePoll
    /\ trig' = IdleTrig
    /\ env' = IdleEnv
    /\ obs' = IdleObs
    /\ life' = Remember([k \in FileKeys |->
          IF k \in RepoKeys(Repos)
          THEN [life[k] EXCEPT !.memDecreased =
                   @ \/ restoreLastAccess(files[k]).EventID < LastAccessOf(k).EventID]
          ELSE life[k]])
    /\ net' = <<>>
    /\ UNCHANGED <<Accounts, files, cur, track, hand, store, shut, stamp>>

Next ==
    \/ PollStart
    \/ FetchTransportError
    \/ FetchNotModified
    \/ FetchPage
    \/ TriggerResolve
    \/ PostEvent
    \/ Restart

Spec == Init /\ [][Next]_vars

\* ------------------------------------------------------------ Worker.PollRepo
\* The worker of one repository keeps its cursor in worker.LastAccess, here
\* the entry of its repository in Repos. PollRepo sends the page-1 request
\* through getIssueEvent(1, true), which adds If-None-Match when the stored
\* ETag is not empty.
WorkerPollStart == PollStart

\* getIssueEvent returns (nil, err). For page 1 PollRepo logs the error and
\* goes on to read resp.StatusCode; for a later page the error is not looked
\* at and the next turn of the loop hands the nil response to parseResponse,
\* which reads resp.Body. Either way a nil pointer is dereferenced.
WorkerTransportError ==
    /\ pc = "fetch"
    /\ pc' = "crashed"
    /\ obs' = Observe([obs EXCEPT !.outcome = "transportError"])
    /\ UNCHANGED <<Accounts, Repos, files, cur, todo, poll, trig, env, life, track, hand,
                   store, shut, net, stamp>>

\* Status 304 on page 1: the body is closed and PollRepo returns nil.
WorkerNotModified == FetchNotModified

\* One turn of the loop of PollRepo on a response that was obtained: the
\* statements are those of pollRepo, with updateLastAccess at the end.
WorkerPage == FetchPage

\* PollRepo has returned its pairs and the caller has taken them.
WorkerReturn ==
    /\ pc = "trigger"
    /\ pc' = "select"
    /\ trig' = IdleTrig
    /\ UNCHANGED <<Accounts, Repos, files, cur, todo, poll, env, obs, life, track, hand,
                   store, shut, net, stamp>>

InitWorker == InitPoller /\ track = "worker"

NextWorker ==
    \/ WorkerPollStart
    \/ WorkerTransportError
    \/ WorkerNotModified
    \/ WorkerPage
    \/ WorkerReturn

SpecWorker == InitWorker /\ [][NextWorker]_vars

\* The behaviours in which the upstream serves objects of another shape.
InitShape == InitPoller /\ track = "shape"

NextShape ==
    \/ PollStart
    \/ FetchTransportError
    \/ FetchNotModified
    \/ FetchPage
    \/ TriggerResolve
    \/ PostEvent

SpecShape == InitShape /\ [][NextShape]_vars

\* The behaviours that follow the HTTP exchanges of the cycles.
InitFetch == InitPoller /\ track = "fetch"

NextFetch ==
    \/ PollStart
    \/ FetchTransportError
    \/ FetchNotModified
    \/ FetchPage
    \/ TriggerResolve
    \/ PostEvent

SpecFetch == InitFetch /\ [][NextFetch]_vars

\* A behaviour that tracks the repository over its cycles stops once an id
\* has been returned twice or the persisted marker has decreased: nothing
\* that follows bears on what these behaviours are examined for.
LifeOpen == \A k \in FileKeys : ~life[k].dup /\ ~life[k].fileDecreased

InitLife == InitPoller /\ track = "life"

NextLife ==
    \/ LifeOpen /\ PollStart
    \/ LifeOpen /\ FetchTransportError
    \/ LifeOpen /\ FetchNotModified
    \/ LifeOpen /\ FetchPage
    \/ LifeOpen /\ TriggerResolve
    \/ LifeOpen /\ PostEvent
    \/ LifeOpen /\ Restart

SpecLife == InitLife /\ [][NextLife]_vars

\* The hand-off from pollRepo to the dispatch, over the cycles and restarts
\* of one repository, with a target for "issues" configured or without one.
NoIssuesRawConfig ==
    <<[User |-> "o", Token |-> "t",
       Hooks |-> <<[Repo |-> "r", Events |-> <<"push">>, URL |-> "u1", Secret |-> "k"]>>]>>

HandoffOpen == \A k \in FileKeys : ~life[k].relost /\ ~life[k].fileDecreased

InitHandoff ==
    /\ Accounts \in {Load(PollerRawConfig), Load(NoIssuesRawConfig)}
    /\ Started
    /\ track = "handoff"

NextHandoff ==
    \/ HandoffOpen /\ PollStart
    \/ HandoffOpen /\ FetchTransportError
    \/ HandoffOpen /\ FetchNotModified
    \/ HandoffOpen /\ FetchPage
    \/ HandoffOpen /\ TriggerResolve
    \/ HandoffOpen /\ PostEvent
    \/ HandoffOpen /\ Restart

SpecHandoff == InitHandoff /\ [][NextHandoff]_vars

\* --------------------------------------------------------------- handleHook
\* The configuration files the listener is examined with: a first account of
\* user "o" with up to MaxHooks hooks, and a second account with one hook on
\* "r" subscribed to "issues". Every hook has a URL of its own.
HookURLs == <<"u1", "u2", "u3", "u4">>
RawEventLists == {<<>>, <<"issues">>, <<"push", "*">>}

RawHookLists ==
    UNION {{[j \in 1..n |-> [Repo |-> rs[j], Events |-> es[j], URL |-> HookURLs[j],
                             Secret |-> "k"]] :
              rs \in [1..n -> RepoNames], es \in [1..n -> RawEventLists]} :
           n \in 0..MaxHooks}

RawConfigs ==
    {<<[User |-> "o", Token |-> "t", Hooks |-> hs],
       [User |-> u, Token |-> "t",
        Hooks |-> <<[Repo |-> "r", Events |-> <<"issues">>, URL |-> "v1",
                     Secret |-> ""]>>]>> :
        hs \in RawHookLists, u \in Owners}

\* The full names a payload carries, as characters.
FullNames ==
    {<<"o", "/", "r">>, <<"o", "/", "q">>, <<"p", "/", "r">>, <<"o", "/", "r", "/", "x">>,
     <<"o", "r">>}

\* The bodies of the requests: one the read of which fails, one that is not
\* JSON, one without a repository object, one whose repository has no
\* full_name string, and the well-formed ones.
Bodies ==
    {[kind |-> k, fullname |-> <<>>] :
        k \in {"readErr", "badJSON", "noRepository", "noFullName"}}
    \cup {[kind |-> "ok", fullname |-> f] : f \in FullNames}

EventHeaders == {"issues", "push", "ping"}
SignatureHeaders == {"", "sha1=x"}

RECURSIVE Split(_, _)
\* strings.Split: the pieces between the separators, one piece when there is
\* no separator.
Split(s, sep) ==
    IF \A i \in 1..Len(s) : s[i] # sep THEN <<s>>
    ELSE LET i == CHOOSE i \in 1..Len(s) : s[i] = sep /\ \A j \in 1..(i - 1) : s[j] # sep
         IN <<SubSeq(s, 1, i - 1)>> \o Split(SubSeq(s, i + 1, Len(s)), sep)

RECURSIVE Str(_)
\* The string of a sequence of characters.
Str(chars) == IF chars = <<>> THEN "" ELSE Head(chars) \o Str(Tail(chars))

\* getRepoNameAndOwner: an error when any of the three decodings fails; the
\* index fields[1] is out of range when the full name holds no "/".
getRepoNameAndOwner(payload) ==
    IF payload.kind # "ok"
    THEN [err |-> TRUE, panic |-> FALSE, repoName |-> "", owner |-> ""]
    ELSE LET fields == Split(payload.fullname, "/") IN
         IF Len(fields) < 2
         THEN [err |-> FALSE, panic |-> TRUE, repoName |-> "", owner |-> ""]
         ELSE [err |-> FALSE, panic |-> FALSE, repoName |-> Str(fields[2]),
               owner |-> Str(fields[1])]

\* A relay that drops the signature of the inbound request.
ForwardedUnsigned(url, req) ==
    [url |-> url, event |-> req.event, body |-> req.body, signature |-> ""]

\* What handleHook sends: the body it received, the event and the signature
\* of the inbound request.
Forwarded(url, req) ==
    [url |-> url, event |-> req.event, body |-> req.body, signature |-> req.signature]

\* The requests the listener is sent. The behaviours that follow the
\* scheduling of the process are sent one request of each outcome, those
\* that follow the dispatch of renamed issues the same bodies with each event
\* type.
Requests ==
    IF track \in {"sched", "trigger"}
    THEN {[body |-> b, event |-> e, signature |-> ""] :
             b \in {[kind |-> "badJSON", fullname |-> <<>>],
                    [kind |-> "ok", fullname |-> <<"o", "/", "r">>],
                    [kind |-> "ok", fullname |-> <<"o", "/", "q">>]},
             e \in IF track = "sched" THEN {"issues"} ELSE EventHeaders}
    ELSE [body : Bodies, event : EventHeaders, signature : SignatureHeaders]

\* A handler that looked the cursor of the repository up in Poller.Repos.
HandlerReadsRepos == {"handler"}

\* The goroutines through which handleHook reaches Poller.Repos: it works on
\* the request and config.Accounts only, so none.
HandlerReposAccess == {}

\* The behaviours that follow the scheduling of the process keep the result
\* of the last request and drop the request itself.
Served(h) == IF track = "sched" THEN [IdleHand EXCEPT !.result = h.result] ELSE h

\* handleHook, from the read of the body to its return. When client.Do fails
\* the error is logged and resp, which is nil, is dereferenced: the handler
\* panics.
HandleHook ==
    /\ shut.server = "up"
    /\ \E req \in Requests :
          LET b == req.body
              n == getRepoNameAndOwner(b)
              t == getWebHookURL(Accounts, n.owner, n.repoName, req.event)
              served == [IdleHand EXCEPT !.req = req]
              named == [served EXCEPT !.repo = n.repoName, !.owner = n.owner]
          IN IF b.kind = "readErr"
             THEN hand' = Served([served EXCEPT !.result = "readErr"])
             ELSE IF n.err THEN hand' = Served([served EXCEPT !.result = "parseErr"])
             ELSE IF n.panic THEN hand' = Served([served EXCEPT !.result = "panicked"])
             ELSE IF t.URL = "" THEN hand' = Served([named EXCEPT !.result = "nomatch"])
             ELSE \E d \in {"ok", "error"} :
                     hand' = Served([named EXCEPT
                                        !.posts = <<Forwarded(t.URL, req)>>,
                                        !.result = IF d = "ok" THEN "forwarded"
                                                   ELSE "panicked"])
    /\ shut' = Touched(HandlerReposAccess)
    /\ UNCHANGED <<Accounts, Repos, files, pc, cur, todo, poll, trig, env, obs, life, track,
                   store, net, stamp>>

InitRelay ==
    /\ Accounts \in {Load(raw) : raw \in RawConfigs}
    /\ Started
    /\ track = "cycle"

NextRelay == HandleHook

SpecRelay == InitRelay /\ [][NextRelay]_vars

\* ------------------------------------ TriggerIssueRenamedWebHook, by itself
\* The renamed issues Run hands over: what a cycle returned.
TriggerQueues ==
    {[i \in 1..Len(ids) |->
         IssueActorPair([id |-> ids[i], event |-> "renamed", issue |-> IssueOf(ids[i]),
                         actor |-> ActorOf(ids[i]), shape |-> "ok"])] :
        ids \in {<<2>>, <<2, 1>>}}

\* Run has just received the pairs of a cycle of one of its repositories,
\* under any of the configurations, and calls TriggerIssueRenamedWebHook.
InitTrigger ==
    /\ Accounts \in {Load(raw) : raw \in RawConfigs}
    /\ files = [k \in FileKeys |-> NoFile]
    /\ Repos = New(Accounts, files)
    /\ pc = "trigger"
    /\ cur \in RepoKeys(Repos)
    /\ todo = {}
    /\ poll = IdlePoll
    /\ trig \in {[IdleTrig EXCEPT !.queue = q] : q \in TriggerQueues}
    /\ env = IdleEnv
    /\ obs = IdleObs
    /\ life = [k \in FileKeys |-> NewLife]
    /\ hand = IdleHand
    /\ store = IdleStore
    /\ shut = IdleShut
    /\ net = <<>>
    /\ stamp = IdleStamp
    /\ track = "trigger"

NextTrigger ==
    \/ TriggerResolve
    \/ PostEvent

SpecTrigger == InitTrigger /\ [][NextTrigger]_vars

\* ------------------------------- storeLastAccess and restoreLastAccess
\* The configuration with two repositories: "r" with a hook subscribed to
\* "issues", "q" with a hook subscribed to "push" only.
TwoRepoRawConfig ==
    <<[User |-> "o", Token |-> "t",
       Hooks |-> <<[Repo |-> "r", Events |-> <<"issues">>, URL |-> "u1", Secret |-> "k"],
                   [Repo |-> "q", Events |-> <<>>, URL |-> "u2", Secret |-> ""]>>]>>

\* The cursors saved: no validator, a validator, one with a space and a digit
\* inside; markers of one and of two digits.
StoreValidators == {<<>>, <<"a">>, <<"a", SP, "1">>}
StoreMarkers == {0, 10, MaxMarker}
StoreCursors == [ETag : StoreValidators, EventID : StoreMarkers]

\* What a record can be found to hold when something other than a completed
\* storeLastAccess wrote it last: nothing at all, no file, one line or less, an
\* unterminated second line, a second line that is empty or not a number, and
\* two records that are padded or followed by more.
DamagedContents ==
    {NoFile, <<>>, <<"a">>, <<"a", NL>>, <<"a", NL, "7">>, <<"a", NL, "x", NL>>,
     <<"a", NL, NL>>, <<SP, "a", NL, SP, "7", SP, NL>>, <<"a", NL, "7", NL, "x">>}

\* A call of storeLastAccess(owner, repo, a).
StoreLastAccess ==
    /\ \E k \in RepoKeys(Repos), a \in StoreCursors, w \in WriteOutcomes :
          /\ files' = [files EXCEPT ![k] = storeLastAccess(files[k], a, w)]
          /\ store' = [op |-> "store", key |-> k,
                       cursor |-> IF w = "ok" THEN a ELSE ZeroLastAccess,
                       outcome |-> w]
    /\ UNCHANGED <<Accounts, Repos, pc, cur, todo, poll, trig, env, obs, life, track, hand,
                   shut, net, stamp>>

\* A call of restoreLastAccess(owner, repo).
RestoreLastAccess ==
    /\ \E k \in RepoKeys(Repos) :
          store' = [op |-> "load", key |-> k, cursor |-> restoreLastAccess(files[k]),
                    outcome |-> "none"]
    /\ UNCHANGED <<Accounts, Repos, files, pc, cur, todo, poll, trig, env, obs, life, track,
                   hand, shut, net, stamp>>

\* The record is removed, cut or overwritten from outside the program.
Damage ==
    /\ \E k \in RepoKeys(Repos), c \in DamagedContents :
          /\ files' = [files EXCEPT ![k] = c]
          /\ store' = [op |-> "damage", key |-> k, cursor |-> ZeroLastAccess,
                       outcome |-> "none"]
    /\ UNCHANGED <<Accounts, Repos, pc, cur, todo, poll, trig, env, obs, life, track, hand,
                   shut, net, stamp>>

InitStore ==
    /\ Accounts = Load(TwoRepoRawConfig)
    /\ Started
    /\ track = "cycle"

NextStore ==
    \/ StoreLastAccess
    \/ RestoreLastAccess
    \/ Damage

SpecStore == InitStore /\ [][NextStore]_vars

\* ------------------------------------------- the two callers of getWebHookURL
\* Configurations of the account "o": "r" subscribed to "issues" and "q" to
\* the default; "r" subscribed to everything and "q" to "push"; two hooks of
\* "r", the first of which is not subscribed to "issues".
ResolveRawConfigs ==
    {TwoRepoRawConfig,
     <<[User |-> "o", Token |-> "t",
        Hooks |-> <<[Repo |-> "r", Events |-> <<"push", "*">>, URL |-> "u1", Secret |-> "k"],
                    [Repo |-> "q", Events |-> <<"push">>, URL |-> "u2", Secret |-> ""]>>]>>,
     <<[User |-> "o", Token |-> "t",
        Hooks |-> <<[Repo |-> "r", Events |-> <<"push">>, URL |-> "u1", Secret |-> ""],
                    [Repo |-> "r", Events |-> <<"issues", "push">>, URL |-> "u2",
                     Secret |-> "k"]>>]>>}

\* Run has just received the pairs of a cycle of one of its repositories
\* while the listener serves requests.
InitResolve ==
    /\ Accounts \in {Load(raw) : raw \in ResolveRawConfigs}
    /\ files = [k \in FileKeys |-> NoFile]
    /\ Repos = New(Accounts, files)
    /\ pc = "trigger"
    /\ cur \in RepoKeys(Repos)
    /\ todo = {}
    /\ poll = IdlePoll
    /\ trig \in {[IdleTrig EXCEPT !.queue = q] : q \in TriggerQueues}
    /\ env = IdleEnv
    /\ obs = IdleObs
    /\ life = [k \in FileKeys |-> NewLife]
    /\ hand = IdleHand
    /\ store = IdleStore
    /\ shut = IdleShut
    /\ net = <<>>
    /\ stamp = IdleStamp
    /\ track = "trigger"

NextResolve ==
    \/ TriggerResolve
    \/ PostEvent
    \/ HandleHook

SpecResolve == InitResolve /\ [][NextResolve]_vars

\* ---------------------------------------------------------- main and shutdown
\* A main that calls Stop on the poller without stopping the listener first.
MainSkipsListener == "callStop"

\* What main does once the interrupt has arrived: server.Stop.
MainAfterInterrupt == "stopServer"

\* A Run whose select does not return on a receive from stopCh.
RunIgnoresStopRequest == "select"

\* Where Run stands once its select has received from stopCh: it has returned
\* from the loop and its deferred send on StopDoneCh is pending.
RunAfterStopRequest == "deferred"

\* The interrupt signal arrives at main, which was blocked on its channel.
Interrupt ==
    /\ shut.main = "serving"
    /\ shut' = [shut EXCEPT !.main = MainAfterInterrupt]
    /\ UNCHANGED <<Accounts, Repos, files, pc, cur, todo, poll, trig, env, obs, life, track,
                   hand, store, net, stamp>>

\* main stops the listener and waits until ListenAndServe has returned.
StopListener ==
    /\ shut.main = "stopServer"
    /\ shut' = [shut EXCEPT !.main = "callStop", !.server = "down"]
    /\ UNCHANGED <<Accounts, Repos, files, pc, cur, todo, poll, trig, env, obs, life, track,
                   hand, store, net, stamp>>

\* Stop sends on the unbuffered stopCh; the send completes when Run, back at
\* its select between two visits, takes the receive branch and returns.
StopRequest ==
    /\ shut.main = "callStop"
    /\ pc = "select"
    /\ pc' = RunAfterStopRequest
    /\ shut' = [shut EXCEPT !.main = "waitDone"]
    /\ UNCHANGED <<Accounts, Repos, files, cur, todo, poll, trig, env, obs, life, track, hand,
                   store, net, stamp>>

\* The deferred function of Run sends on StopDoneCh and main, which waits on
\* it, receives and returns.
StopDone ==
    /\ shut.main = "waitDone"
    /\ pc = "deferred"
    /\ pc' = "ended"
    /\ shut' = [shut EXCEPT !.main = "exited"]
    /\ UNCHANGED <<Accounts, Repos, files, cur, todo, poll, trig, env, obs, life, track, hand,
                   store, net, stamp>>

InitSched ==
    /\ Accounts = Load(TwoRepoRawConfig)
    /\ Started
    /\ track = "sched"

NextSched ==
    \/ PollStart
    \/ FetchTransportError
    \/ FetchNotModified
    \/ FetchPage
    \/ TriggerResolve
    \/ PostEvent
    \/ HandleHook
    \/ Interrupt
    \/ StopListener
    \/ StopRequest
    \/ StopDone

SpecSched == InitSched /\ [][NextSched]_vars

\* The same process under the scheduling the runtime gives it: a goroutine
\* that can take a step takes one; the timer of the select of Run fires; a
\* request in flight is answered; main goes on once the listener is down and
\* receives from StopDoneCh when a sender waits. The select of Run chooses
\* among its ready cases at random, so a send on StopReqCh that is offered
\* every time Run is back at its select is received at one of them. No
\* interrupt has to arrive and no request has to be sent to the listener.
FairSched ==
    /\ WF_vars(PollStart)
    /\ WF_vars(FetchTransportError \/ FetchNotModified \/ FetchPage)
    /\ WF_vars(TriggerResolve)
    /\ WF_vars(PostEvent)
    /\ WF_vars(StopListener)
    /\ SF_vars(StopRequest)
    /\ WF_vars(StopDone)

SpecSchedFair == SpecSched /\ FairSched

\* Run by itself, with no interrupt: its passes over the two entries of Repos.
InitPass ==
    /\ Accounts = Load(TwoRepoRawConfig)
    /\ Started
    /\ track = "pass"

NextPass ==
    \/ PollStart
    \/ FetchTransportError
    \/ FetchNotModified
    \/ FetchPage
    \/ TriggerResolve
    \/ PostEvent

\* The timer of the select fires, a request in flight is answered and a
\* dispatch that has started goes on.
FairPass ==
    /\ WF_vars(PollStart)
    /\ WF_vars(FetchTransportError \/ FetchNotModified \/ FetchPage)
    /\ WF_vars(TriggerResolve)
    /\ WF_vars(PostEvent)

SpecPass == InitPass /\ [][NextPass]_vars /\ FairPass

\* Run over two repositories whose records may fail to be written.
InitFrame ==
    /\ Accounts = Load(TwoRepoRawConfig)
    /\ Started
    /\ track = "frame"

SpecFrame == InitFrame /\ [][NextPass]_vars

\* Run over two repositories, with writes of the record that may fail and
\* restarts of the process between cycles.
InitRestart ==
    /\ Accounts = Load(TwoRepoRawConfig)
    /\ Started
    /\ track = "restart"

NextRestart ==
    \/ PollStart
    \/ FetchTransportError
    \/ FetchNotModified
    \/ FetchPage
    \/ TriggerResolve
    \/ PostEvent
    \/ pc = "select" /\ Restart

SpecRestart == InitRestart /\ [][NextRestart]_vars

\* The start of Run under the configurations Load accepts: those of the
\* listener (an account with no hook, several hooks on one repository, a
\* second account of the same user), a file with no account and a file with
\* one account that has no hook. The -i flag gives the interval in seconds.
StartRawConfigs ==
    RawConfigs \cup {<<>>, <<[User |-> "o", Token |-> "t", Hooks |-> <<>>]>>}

Intervals == {1, 5}

\* main has called New and starts Run, which computes its delay before it
\* installs its deferred function: a panic there ends the process.
RunStart ==
    /\ pc = "start"
    /\ \E interval \in Intervals :
          pc' = IF Delay(interval, NumRepo(Accounts)).fault THEN "faulted" ELSE "select"
    /\ UNCHANGED <<Accounts, Repos, files, cur, todo, poll, trig, env, obs, life, track,
                   hand, store, shut, net, stamp>>

InitStart ==
    /\ Accounts \in {Load(raw) : raw \in StartRawConfigs}
    /\ files = [k \in FileKeys |-> NoFile]
    /\ Repos = New(Accounts, files)
    /\ pc = "start"
    /\ cur = <<"o", "r">>
    /\ todo = {}
    /\ poll = IdlePoll
    /\ trig = IdleTrig
    /\ env = IdleEnv
    /\ obs = IdleObs
    /\ life = [k \in FileKeys |-> NewLife]
    /\ hand = IdleHand
    /\ store = IdleStore
    /\ shut = IdleShut
    /\ net = <<>>
    /\ stamp = IdleStamp
    /\ track = "pass"

NextStart ==
    \/ RunStart
    \/ PollStart
    \/ FetchTransportError

SpecStart == InitStart /\ [][NextStart]_vars

\* ------------------------------------------- the reconcilers with a timestamp
\* Two earlier forms of the poller keep the creation time of the newest event
\* as the cursor (LastAccess{ETag, Timestamp}) instead of an event id. Their
\* upstream is modelled as one feed that grows at its head: feed[1] is the
\* newest event, created_at never decreases from one event to the next one
\* created, and the validator of the feed changes with every event.
FeedEventTypes == {"renamed", "closed"}

Validator(feed) == <<Len(feed)>>

LastPage(feed) == (Len(feed) + PageLen - 1) \div PageLen

FeedPage(feed, n) ==
    SubSeq(feed, (n - 1) * PageLen + 1,
           IF n * PageLen < Len(feed) THEN n * PageLen ELSE Len(feed))

\* The response to the request for page n: the body is a JSON array or not,
\* the Link header is present when the feed has more than one page.
Response(feed, n, array) ==
    [array |-> array, records |-> FeedPage(feed, n),
     link |-> IF LastPage(feed) > 1 THEN LastPage(feed) ELSE 0]

\* The stop test of parseResponse with a strict comparison.
StampSeenStrict(lastTs, ts) == lastTs > ts

\* The stop test of parseResponse in the form that collects pairs.
StampSeen(lastTs, ts) == lastTs >= ts

NoScan == [err |-> FALSE, found |-> FALSE, latestTs |-> 0, pairs |-> <<>>, scanned |-> {}]

RECURSIVE ScanStamp(_, _, _)
\* The loop of parseResponse in the form that collects pairs: the stop test
\* comes first, a record that passes it raises latestTs and, when it is a
\* rename, is appended to the pairs.
ScanStamp(lastTs, records, acc) ==
    IF records = <<>>
    THEN acc
    ELSE LET v == Head(records) IN
         IF StampSeen(lastTs, v.ts)
         THEN [acc EXCEPT !.found = TRUE]
         ELSE ScanStamp(lastTs, Tail(records),
                        [acc EXCEPT !.latestTs = Max2(@, v.ts),
                                    !.pairs = IF v.event = "renamed"
                                              THEN Append(@, v.id) ELSE @,
                                    !.scanned = @ \cup {v.id}])

parseResponseStamp(lastTs, resp) ==
    IF ~resp.array
    THEN [NoScan EXCEPT !.err = TRUE]
    ELSE ScanStamp(lastTs, resp.records, NoScan)

NoEarliest ==
    [err |-> FALSE, found |-> FALSE, hasRenamedEvent |-> FALSE, latestTs |-> 0,
     renamedIssue |-> <<>>]

RECURSIVE ScanEarliest(_, _, _)
\* The loop of parseResponse in the earliest form: every record it reaches
\* raises latestTs and, when it is a rename, replaces the rename to report;
\* the stop test comes last.
ScanEarliest(lastTs, records, acc) ==
    IF records = <<>>
    THEN acc
    ELSE LET v == Head(records)
             read == [acc EXCEPT !.latestTs = Max2(@, v.ts),
                                 !.hasRenamedEvent = @ \/ v.event = "renamed",
                                 !.renamedIssue = IF v.event = "renamed"
                                                  THEN <<v>> ELSE @]
         IN IF lastTs > v.ts
            THEN [read EXCEPT !.found = TRUE]
            ELSE ScanEarliest(lastTs, Tail(records), read)

parseResponseEarliest(lastTs, resp) ==
    IF ~resp.array
    THEN [NoEarliest EXCEPT !.err = TRUE]
    ELSE ScanEarliest(lastTs, resp.records, NoEarliest)

\* The renames that stand at the boundary: created in the second the cursor
\* holds, not read by any scan so far, while another event of that second
\* has been read.
Boundary(feed, marker, scanned) ==
    {feed[i].id : i \in {j \in 1..Len(feed) :
        /\ feed[j].event = "renamed"
        /\ feed[j].ts = marker
        /\ feed[j].id \notin scanned
        /\ \E k \in 1..Len(feed) : feed[k].id \in scanned /\ feed[k].ts = feed[j].ts}}

Remembered(new) ==
    IF track = "stamp"
    THEN [new EXCEPT !.boundary = @ \cup Boundary(new.feed, new.last.Timestamp,
                                                  new.scanned)]
    ELSE new

StampFrame ==
    UNCHANGED <<Accounts, Repos, files, pc, cur, todo, poll, trig, env, obs, life, track,
                hand, store, shut, net>>

\* An event is created upstream, at any moment of a cycle or between cycles.
StampArrive ==
    /\ Len(stamp.feed) < MaxFeed
    /\ \E t \in 1..MaxTs, e \in FeedEventTypes :
          /\ stamp.feed # <<>> => t >= stamp.feed[1].ts
          /\ stamp' = Remembered([stamp EXCEPT !.feed =
                <<[id |-> Len(stamp.feed) + 1, ts |-> t, event |-> e]>> \o @])
    /\ StampFrame

\* pollRepo up to its loop: the page-1 request, conditional on a stored ETag,
\* is answered 200.
StampPollStart ==
    /\ stamp.pc = "idle"
    /\ stamp.last.ETag # Validator(stamp.feed)
    /\ \E array \in BOOLEAN :
          stamp' = Remembered([stamp EXCEPT
              !.pc = "parse", !.page = 1, !.maxPage = 0, !.latestTs = 0,
              !.etag = Validator(stamp.feed), !.pairs = <<>>,
              !.resp = Response(stamp.feed, 1, array),
              !.start = stamp.last.Timestamp, !.outcome = "running"])
    /\ StampFrame

\* The page-1 request carried the validator the feed still has: 304, the body
\* is closed and pollRepo returns nil.
StampNotModified ==
    /\ stamp.pc = "idle"
    /\ stamp.last.ETag # <<>>
    /\ stamp.last.ETag = Validator(stamp.feed)
    /\ stamp' = Remembered([stamp EXCEPT !.start = stamp.last.Timestamp,
                                         !.outcome = "notmodified"])
    /\ StampFrame

\* client.Do returns an error for the page-1 request.
StampTransportError ==
    /\ stamp.pc = "idle"
    /\ stamp' = Remembered([stamp EXCEPT !.start = stamp.last.Timestamp,
                                         !.outcome = "error"])
    /\ StampFrame

\* The records a turn of the loop read are remembered, and apart those read
\* in a cycle that began with a cursor other than 0.
Scanned(new, ids) ==
    [new EXCEPT !.scanned = @ \cup ids,
                !.hot = IF stamp.start # 0 THEN @ \cup ids ELSE @]

\* pollRepo returns nil from inside its loop.
StampAbandon(scanned) ==
    Scanned([stamp EXCEPT !.pc = "idle", !.resp = NoResponse, !.outcome = "error"],
            scanned)

\* The end of pollRepo: the cursor is replaced and the pairs are returned.
StampStore(etag, latestTs, pairs, scanned) ==
    Scanned([stamp EXCEPT
                !.pc = "idle", !.resp = NoResponse, !.outcome = "done",
                !.last = [ETag |-> etag, Timestamp |-> latestTs],
                !.latestTs = latestTs, !.pairs = pairs,
                !.returned = @ \cup {[id |-> pairs[i], start |-> stamp.start] :
                                        i \in 1..Len(pairs)}],
            scanned)

\* One turn of the loop of pollRepo in the form that collects pairs.
StampPage ==
    /\ stamp.pc = "parse"
    /\ LET lastTs == stamp.last.Timestamp
           pr == parseResponseStamp(lastTs, stamp.resp)
           maxPage == IF stamp.maxPage = 0 /\ stamp.resp.link # 0
                      THEN stamp.resp.link ELSE stamp.maxPage
           latestTs == Max2(stamp.latestTs, pr.latestTs)
       IN IF pr.err
          THEN stamp' = Remembered(StampAbandon(pr.scanned))
          ELSE IF pr.found \/ lastTs = 0
          THEN stamp' = Remembered(StampStore(stamp.etag, latestTs,
                                              stamp.pairs \o pr.pairs, pr.scanned))
          ELSE IF stamp.page + 1 > maxPage
          THEN stamp' = Remembered(StampStore(stamp.etag, latestTs, stamp.pairs,
                                              pr.scanned))
          ELSE \E answer \in {"array", "other", "error"} :
                  stamp' = Remembered(
                      IF answer = "error"
                      THEN StampAbandon(pr.scanned)
                      ELSE Scanned([stamp EXCEPT
                                       !.page = @ + 1, !.maxPage = maxPage,
                                       !.latestTs = latestTs,
                                       !.resp = Response(stamp.feed, stamp.page + 1,
                                                         answer = "array")],
                                   pr.scanned))
    /\ StampFrame

\* The end of pollRepo in the earliest form: the cursor is replaced and the
\* one rename kept is returned.
EarliestStore(etag, latestTs, renamed) ==
    [stamp EXCEPT !.pc = "idle", !.resp = NoResponse, !.outcome = "done",
                  !.last = [ETag |-> etag, Timestamp |-> latestTs],
                  !.latestTs = latestTs,
                  !.reported = @ \cup {[id |-> renamed[i].id, ts |-> renamed[i].ts,
                                        start |-> stamp.start] :
                                          i \in 1..Len(renamed)}]

\* One turn of the loop of pollRepo in the earliest form.
EarliestPage ==
    /\ stamp.pc = "parse"
    /\ LET lastTs == stamp.last.Timestamp
           pr == parseResponseEarliest(lastTs, stamp.resp)
           maxPage == IF stamp.maxPage = 0 /\ stamp.resp.link # 0
                      THEN stamp.resp.link ELSE stamp.maxPage
           latestTs == Max2(stamp.latestTs, pr.latestTs)
       IN IF pr.err
          THEN stamp' = StampAbandon({})
          ELSE IF pr.found \/ pr.hasRenamedEvent \/ lastTs = 0
          THEN stamp' = EarliestStore(stamp.etag, latestTs,
                                      IF pr.hasRenamedEvent
                                      THEN pr.renamedIssue ELSE <<>>)
          ELSE IF stamp.page + 1 > maxPage
          THEN stamp' = EarliestStore(stamp.etag, latestTs, <<>>)
          ELSE \E answer \in {"array", "other", "error"} :
                  stamp' = IF answer = "error"
                           THEN StampAbandon({})
                           ELSE [stamp EXCEPT
                                    !.page = @ + 1, !.maxPage = maxPage,
                                    !.latestTs = latestTs,
                                    !.resp = Response(stamp.feed, stamp.page + 1,
                                                      answer = "array")]
    /\ StampFrame

InitStamp == InitPoller /\ track = "stamp"

NextStamp ==
    \/ StampArrive
    \/ StampPollStart
    \/ StampNotModified
    \/ StampTransportError
    \/ StampPage

SpecStamp == InitStamp /\ [][NextStamp]_vars

InitEarliest == InitPoller /\ track = "earliest"

NextEarliest ==
    \/ StampArrive
    \/ StampPollStart
    \/ StampNotModified
    \/ StampTransportError
    \/ EarliestPage

SpecEarliest == InitEarliest /\ [][NextEarliest]_vars

\* ------------------------------------------------------------------ claims
PairsOf(records) == [i \in 1..Len(records) |-> IssueActorPair(records[i])]

Updated == obs.outcome = "updated"
Cold == obs.start.EventID = 0
FinalPage == Max2(1, obs.announced)

C2_AllRenamedReturned ==
    (Updated /\ ~Cold) => obs.result = PairsOf(obs.seenRenamed)

\* C3: no event returned by a cycle that starts from a non-zero marker has an
\* id at or below that marker.
C3_NoStaleEvent ==
    (Updated /\ ~Cold) =>
        \A i \in 1..Len(obs.result) : IdOfPair(obs.result[i]) > obs.start.EventID

\* A cycle that started from a non-zero marker has returned an event.
C3_Witness == Updated /\ ~Cold /\ obs.result # <<>>

\* C4 as stated: an id is returned at most once as long as the persisted
\* marker has never decreased.
C4_AtMostOnce ==
    \A k \in FileKeys : ~life[k].fileDecreased => ~life[k].dup

\* C4 amended: an id is returned at most once as long as neither the persisted
\* marker nor the marker held in memory (which a restart after a failed write
\* sets back to the older persisted value) has ever decreased.
C4_AtMostOnceDurable ==
    \A k \in FileKeys :
        (~life[k].fileDecreased /\ ~life[k].memDecreased) => ~life[k].dup

\* A cycle was served an id returned by an earlier cycle and did not return
\* it again, no marker having decreased.
C4_Witness ==
    \E k \in FileKeys :
        /\ life[k].reseen /\ ~life[k].dup
        /\ ~life[k].fileDecreased /\ ~life[k].memDecreased

\* C5: after a cycle that updates the cursor the marker is at least the marker
\* before the cycle and at least every id the scan read.
C5_MarkerMonotone ==
    Updated =>
        /\ LastAccessOf(cur).EventID >= obs.start.EventID
        /\ (~Cold => LastAccessOf(cur).EventID >= obs.maxRead)

\* C6: a 304 on page 1 ends the cycle after one fetch, with no event and with
\* the cursor in memory and the persisted record as they were.
C6_NotModifiedFastPath ==
    obs.outcome = "notmodified" =>
        /\ obs.fetches = 1
        /\ obs.result = <<>>
        /\ pc = "select"
        /\ LastAccessOf(cur) = obs.start
        /\ files[cur] = obs.startFile

\* A conditional request was answered 304.
C6_Witness == obs.outcome = "notmodified" /\ obs.start.ETag # <<>> /\ ~Cold

\* C7: a transport error or an unreadable or undecodable body on any page
\* ends the cycle with no event and with the cursor in memory and the
\* persisted record as they were at its start.
C7_ErrorLeavesCursor ==
    obs.outcome = "error" =>
        /\ obs.result = <<>>
        /\ pc = "select"
        /\ LastAccessOf(cur) = obs.start
        /\ files[cur] = obs.startFile

\* A cycle failed on its second page, the first having been processed.
C7_Witness == obs.outcome = "error" /\ obs.fetches >= 2 /\ ~Cold

\* The rule of an account matches (owner, repo, eventType) as the design
\* states it.
RuleMatches(acct, hook, owner, repo, event) ==
    /\ acct.User = owner
    /\ hook.Repo = repo
    /\ (hook.Events = <<"*">> \/ event \in SeqToSet(hook.Events))

RECURSIVE MatchingURLs(_, _, _, _)
\* The URLs of the matching rules of some hooks, in order.
MatchingURLs(acct, hooks, repo, event) ==
    IF hooks = <<>> THEN <<>>
    ELSE (IF RuleMatches(acct, Head(hooks), acct.User, repo, event)
          THEN <<Head(hooks).URL>> ELSE <<>>)
         \o MatchingURLs(acct, Tail(hooks), repo, event)

RECURSIVE ResolveTargets(_, _, _, _)
\* The URLs of every matching rule over the accounts, in order.
ResolveTargets(accts, owner, repo, event) ==
    IF accts = <<>> THEN <<>>
    ELSE (IF Head(accts).User = owner
          THEN MatchingURLs(Head(accts), Head(accts).Hooks, repo, event) ELSE <<>>)
         \o ResolveTargets(Tail(accts), owner, repo, event)

Dispatched == hand.result \in {"nomatch", "forwarded"}

\* C8: a request the handler has served to its end was posted once to every
\* rule that matches its (owner, repo, eventType), not to the first only.
C8_FanOut ==
    Dispatched =>
        [i \in 1..Len(hand.posts) |-> hand.posts[i].url]
            = ResolveTargets(Accounts, hand.owner, hand.repo, hand.req.event)

\* C9: every POST of the handler goes to a rule whose account user is the
\* owner, whose repository is the repo and whose event list is the wildcard
\* or holds the event type; and when some rule of the owner on the repo is the
\* wildcard, the request is posted whatever its event type.
C9_SelectedRuleMatches ==
    /\ \A i \in 1..Len(hand.posts) :
          \E a \in 1..Len(Accounts) : \E j \in 1..Len(Accounts[a].Hooks) :
              /\ Accounts[a].Hooks[j].URL = hand.posts[i].url
              /\ RuleMatches(Accounts[a], Accounts[a].Hooks[j], hand.owner, hand.repo,
                             hand.req.event)
    /\ (/\ hand.req # <<>>
        /\ \E a \in 1..Len(Accounts) : \E j \in 1..Len(Accounts[a].Hooks) :
              /\ Accounts[a].Hooks[j].Events = <<"*">>
              /\ Accounts[a].User = hand.owner
              /\ Accounts[a].Hooks[j].Repo = hand.repo)
       => hand.posts # <<>>

\* A request was forwarded to the second hook of the first account, the first
\* hook, on another repository or subscribed to other events, having been
\* passed over.
C9_Witness ==
    /\ hand.result = "forwarded"
    /\ Len(Accounts[1].Hooks) >= 2
    /\ hand.posts[1].url = HookURLs[2]
    /\ hand.req.event = "issues"

\* C10: a POST that fails with a transport error is not fatal: Run goes on.
C10_DeliveryFailureNotFatal == trig.lastPost = "error" => pc # "crashed"

\* The secret of the hook a URL belongs to, every hook having a URL of its own.
SecretOfURL(url) ==
    LET a == CHOOSE a \in 1..Len(Accounts) :
                 \E j \in 1..Len(Accounts[a].Hooks) : Accounts[a].Hooks[j].URL = url
        j == CHOOSE j \in 1..Len(Accounts[a].Hooks) : Accounts[a].Hooks[j].URL = url
    IN Accounts[a].Hooks[j].Secret

\* C11: a synthesized webhook carries X-Hub-Signature exactly when the secret
\* of the hook it goes to is not empty, and the header is then "sha1=" and the
\* HMAC-SHA1, under that secret, of the body of the same request.
C11_SignatureOverBody ==
    \A i \in 1..Len(trig.posts) :
        LET post == trig.posts[i]
            secret == SecretOfURL(post.url)
        IN /\ (post.signature # NoSignature) <=> (secret # "")
           /\ secret # "" => post.signature = <<"sha1=", HmacSha1Hex(secret, post.body)>>

\* Two synthesized webhooks of one call were sent signed, with different
\* bodies.
C11_Witness ==
    /\ Len(trig.posts) = 2
    /\ trig.posts[1].signature # NoSignature
    /\ trig.posts[2].signature # NoSignature
    /\ trig.posts[1].body # trig.posts[2].body

\* C12: a load that follows a completed save of the same repository returns
\* the validator and the marker saved, and a save leaves what the load of any
\* other repository returns as it was.
C12_RoundTrip ==
    /\ [][(/\ store.op = "store" /\ store.outcome = "ok"
           /\ store'.op = "load" /\ store'.key = store.key)
          => store'.cursor = store.cursor]_vars
    /\ [][store'.op = "store"
          => \A k \in FileKeys \ {store'.key} :
                restoreLastAccess(files'[k]) = restoreLastAccess(files[k])]_vars

\* A load has returned a validator with a space inside and a marker of two
\* digits.
C12_Witness ==
    /\ store.op = "load"
    /\ store.cursor = [ETag |-> <<"a", SP, "1">>, EventID |-> MaxMarker]

RECURSIVE Unpadded(_)
\* A line without the spaces around it.
Unpadded(s) ==
    IF s # <<>> /\ Head(s) = SP THEN Unpadded(Tail(s))
    ELSE IF s # <<>> /\ s[Len(s)] = SP THEN Unpadded(SubSeq(s, 1, Len(s) - 1))
    ELSE s

Decimal(s) == s # <<>> /\ \A i \in 1..Len(s) : s[i] \in SeqToSet(DigitChars)

\* A record that is missing, has fewer than two newline-terminated lines, or
\* whose second line is no decimal number.
Malformed(content) ==
    \/ content = NoFile
    \/ Len(Split(content, NL)) < 3
    \/ ~Decimal(Unpadded(Split(content, NL)[2]))

\* C13: the load of a missing, short or non-decimal record returns the zero
\* cursor.
C13_LoadFailsSoft ==
    (store.op = "load" /\ Malformed(files[store.key])) => store.cursor = ZeroLastAccess

\* A record with a validator on its first line and a second line that is
\* not a number has been loaded.
C13_Witness ==
    /\ store.op = "load"
    /\ files[store.key] = <<"a", NL, "x", NL>>

\* The record does not hold the cursor in memory: the last write failed (or
\* nothing was written yet).
WriteFailed == files[cur] # RecordContent(LastAccessOf(cur))

\* The cursor a completed cycle leaves: the validator of page 1 and the
\* largest id the scan read (from marker 0, the first id of page 1).
CursorOfCycle ==
    [ETag |-> obs.pageOneETag, EventID |-> IF Cold THEN obs.firstId ELSE obs.maxRead]

\* C14: when the write of the record fails at the end of a cycle, the cursor in
\* memory is the new one, the events of the cycle are handed to the dispatch,
\* and the next cycle of the process starts from the new cursor.
C14_SaveFailsSoft ==
    /\ []((Updated /\ WriteFailed) =>
            /\ LastAccessOf(cur) = CursorOfCycle
            /\ (pc = "trigger" => (obs.result # <<>> /\ trig.queue = obs.result)))
    /\ [][(Updated /\ WriteFailed /\ obs'.outcome = "running")
          => obs'.start = CursorOfCycle]_vars

\* A cycle has started from a non-zero marker while no record was ever
\* written.
C14_Witness ==
    /\ obs.outcome = "running"
    /\ obs.start.EventID # 0
    /\ files[cur] = NoFile

\* Stop has returned: main waits on StopDoneCh or has received from it.
StopReturned == shut.main \in {"waitDone", "exited"}

\* C15: once Stop has returned, Run is out of its loop (no pollRepo is in
\* progress and none starts), main receives the completion signal only from
\* a Run that has ended, and neither the cursors in memory nor the persisted
\* records change from then on.
C15_GracefulShutdown ==
    /\ [](StopReturned => pc \in {"deferred", "ended"})
    /\ [](shut.main = "exited" => pc = "ended")
    /\ [][StopReturned => (pc' # "fetch" /\ Repos' = Repos /\ files' = files)]_vars

\* main has received the completion signal after a visit had moved the
\* cursor of o/r and written its record.
C15_Witness ==
    /\ shut.main = "exited"
    /\ pc = "ended"
    /\ Repos["o"]["r"].EventID # 0
    /\ files[<<"o", "r">>] = RecordContent(Repos["o"]["r"])

\* C16 as stated: the completion signal of the scheduling loop has been
\* received by the time the listener is stopped.
C16_DoneBeforeListener == shut.server = "down" => pc = "ended"

\* C16: on shutdown the listener is stopped first; the scheduling loop is
\* asked to stop, leaves its loop and signals completion only once the
\* listener is down, and main has received the completion signal when it
\* returns.
C16_ListenerThenLoop ==
    /\ (shut.main \in {"callStop", "waitDone", "exited"} \/ pc \in {"deferred", "ended"})
          => shut.server = "down"
    /\ shut.main = "exited" => (pc = "ended" /\ shut.server = "down")

\* The listener is down and Run, out of its loop, has its completion signal
\* still to deliver.
C16_Witness ==
    /\ shut.server = "down"
    /\ shut.main = "waitDone"
    /\ pc = "deferred"

\* Where Run stands during a visit: in pollRepo or in the dispatch of what
\* pollRepo returned.
InVisit == {"fetch", "trigger", "post"}

\* C17: a pollRepo starts only from the select of Run, when no visit is in
\* progress and nothing of the previous visit is left to dispatch, and the
\* repository visited does not change from the start of pollRepo to the end
\* of the dispatch.
C17_OneVisitAtATime ==
    /\ [][(pc' = "fetch" /\ pc # "fetch") => (pc = "select" /\ trig.queue = <<>>)]_vars
    /\ [][(pc \in InVisit /\ pc' \in InVisit) => cur' = cur]_vars

\* The last event of the visit of o/r is about to be posted while o/q is
\* still to be visited in this pass.
C17_Witness ==
    /\ pc = "post"
    /\ Len(trig.queue) = 1
    /\ cur = <<"o", "r">>
    /\ todo = {<<"o", "q">>}

\* C18: since New returned, Poller.Repos has been read and written by the
\* goroutine of Run only, and no step of a handler or of main changes it.
C18_ReposOwnedByRun ==
    /\ [](shut.reposBy \subseteq {"run"})
    /\ [][(hand' # hand \/ shut'.main # shut.main \/ shut'.server # shut.server)
          => Repos' = Repos]_vars

\* Run has visited a repository and moved its cursor, a handler has
\* forwarded a request and main has gone through the whole shutdown.
C18_Witness ==
    /\ shut.reposBy = {"run"}
    /\ \E k \in RepoKeys(Repos) : LastAccessOf(k) # ZeroLastAccess
    /\ hand.result = "forwarded"
    /\ shut.main = "exited"

\* C19: every POST of the relay carries the body and the event header of the
\* inbound request and its X-Hub-Signature header ("" when it has none),
\* whatever the secret of the matched hook: nothing is signed with it.
C19_RelayVerbatim ==
    \A i \in 1..Len(hand.posts) :
       /\ hand.posts[i].body = hand.req.body
       /\ hand.posts[i].event = hand.req.event
       /\ hand.posts[i].signature = hand.req.signature

\* A signed request was forwarded, with its signature, to a hook that has a
\* secret.
C19_Witness ==
    /\ hand.result = "forwarded"
    /\ Len(hand.posts) = 1
    /\ hand.req.signature = "sha1=x"
    /\ hand.posts[1].signature = "sha1=x"
    /\ SecretOfURL(hand.posts[1].url) # ""

\* The body of the request is not JSON, has no repository.full_name string,
\* or has a full_name without "/".
MalformedBody(b) ==
    \/ b.kind \in {"badJSON", "noRepository", "noFullName"}
    \/ b.kind = "ok" /\ Len(Split(b.fullname, "/")) < 2

\* C20: a request with a malformed body is abandoned by the decode error
\* path: the handler returns after its log entry, having sent nothing.
C20_MalformedAbandoned ==
    (hand.result # "none" /\ MalformedBody(hand.req.body))
        => (hand.result = "parseErr" /\ hand.posts = <<>>)

\* C21: once the cycle has returned, the body of every response it obtained
\* has been closed.
C21_BodiesClosed ==
    pc # "fetch" => \A i \in 1..Len(net) : net[i].response => net[i].closed

\* C22: the request for page 1 carries If-None-Match exactly when the stored
\* validator is not empty, with that validator as its value, and no request
\* for a later page carries the header.
C22_ConditionalPageOneOnly ==
    /\ \A i \in 1..Len(net) : net[i].page > 1 => net[i].ifNoneMatch = <<>>
    /\ (pc = "fetch" /\ net # <<>>) =>
          /\ net[1].page = 1
          /\ (net[1].ifNoneMatch # <<>>) <=> (LastAccessOf(cur).ETag # <<>>)
          /\ net[1].ifNoneMatch = LastAccessOf(cur).ETag

\* A cycle that sent a conditional request for page 1 has sent the request
\* for page 2.
C22_Witness ==
    /\ pc = "fetch"
    /\ Len(net) = 2
    /\ net[1].ifNoneMatch = <<"a">>
    /\ net[2].page = 2

\* C23: every event dispatched has its own fetch of the repository; when
\* that fetch fails (transport, read or decoding) the payload carries "{}"
\* for the repository and is posted all the same, and when it succeeds the
\* payload carries what was fetched for this event.
C23_MetadataBestEffort ==
    /\ Len(trig.metas) = Len(trig.posts)
    /\ \A i \in 1..Len(trig.posts) :
          /\ trig.metas[i] # "ok" => trig.posts[i].body.repository = "{}"
          /\ trig.metas[i] = "ok" => trig.posts[i].body.repository = "repoFields"

\* Two events were dispatched: the fetch succeeded for the first and failed
\* for the second, whose payload has the empty object.
C23_Witness ==
    /\ Len(trig.posts) = 2
    /\ trig.metas = <<"ok", "transportErr">>
    /\ trig.posts[2].body.repository = "{}"

\* C24: a transport error in Worker.PollRepo abandons the cycle: PollRepo
\* returns, with no events and with the cursor and its record as they were
\* when the cycle began.
C24_WorkerTransportErrorAbandons ==
    obs.outcome = "transportError" =>
        /\ pc = "select"
        /\ trig.queue = <<>>
        /\ LastAccessOf(cur) = obs.start
        /\ files[cur] = obs.startFile

\* C25: a cycle that was served a page holding an object of another shape
\* ends as a decode error does: pollRepo returns with no events and the
\* cursor and its record are as they were when the cycle began.
C25_OddRecordIsDecodeError ==
    (obs.odd /\ obs.outcome # "running") =>
        /\ obs.outcome = "error"
        /\ pc = "select"
        /\ trig.queue = <<>>
        /\ LastAccessOf(cur) = obs.start
        /\ files[cur] = obs.startFile

\* C26: the requests of a cycle are for pages 1, 2, 3, ... in this order; no
\* request follows a response that held a record at or below the non-zero
\* stored marker; and the cycle sends at most max(1, final page) requests,
\* the final page being the one the Link header of page 1 announced.
C26_FetchSequence ==
    /\ \A i \in 1..Len(net) : net[i].page = i
    /\ \A i \in 1..(Len(net) - 1) : ~net[i].stop
    /\ obs.outcome # "none" => Len(net) <= FinalPage

\* A cycle went on to the final page, the second, and met the stop record
\* there.
C26_Witness ==
    /\ pc # "fetch"
    /\ Len(net) = 2
    /\ obs.announced = 2
    /\ net[2].stop

\* C27: a cycle that completed leaves as cursor the ETag of its page-1
\* response and, as marker, the largest id among the records its scan read
\* on all its pages (from marker 0 the scan reads the first record of page 1
\* and no other; no record read gives 0).
C27_CursorOfCompletedCycle ==
    Updated =>
        /\ LastAccessOf(cur).ETag = obs.pageOneETag
        /\ LastAccessOf(cur).ETag # LaterETag
        /\ LastAccessOf(cur).EventID = CursorOfCycle.EventID

\* A cycle from a non-zero marker completed on its second page, with a
\* page-1 validator, having read an id above the stored marker.
C27_Witness ==
    /\ Updated
    /\ ~Cold
    /\ obs.fetches = 2
    /\ LastAccessOf(cur).ETag = <<"a">>
    /\ LastAccessOf(cur).EventID > obs.start.EventID

\* C28: a request of the relay for which no rule matches (owner, repo,
\* eventType) is forwarded nowhere; a dispatch of renamed issues for which no
\* rule of (owner, repo) matches "issues" posts nothing and fetches no
\* repository; and every synthesized webhook has event "issues" and goes to
\* a rule of (owner, repo) subscribed to "issues" or to everything.
C28_NoMatchNoRequest ==
    /\ (hand.req # <<>>
          /\ ResolveTargets(Accounts, hand.owner, hand.repo, hand.req.event) = <<>>)
         => hand.posts = <<>>
    /\ ResolveTargets(Accounts, cur[1], cur[2], "issues") = <<>>
         => (trig.posts = <<>> /\ trig.metas = <<>>)
    /\ \A i \in 1..Len(trig.posts) :
          /\ trig.posts[i].event = "issues"
          /\ trig.posts[i].url
                \in SeqToSet(ResolveTargets(Accounts, cur[1], cur[2], "issues"))

\* The dispatch of a repository no rule of which matches "issues" has
\* returned, and the relay has served a well-formed request that no rule
\* matches.
C28_Witness ==
    /\ pc = "select"
    /\ ResolveTargets(Accounts, cur[1], cur[2], "issues") = <<>>
    /\ trig.lastPost = "none"
    /\ hand.result = "nomatch"

ReturnedIds == {r.id : r \in stamp.returned}

C30_ReportedRenameIsNew ==
    \A r \in stamp.reported : r.start # 0 => r.ts > r.start

Dispatching == pc \in {"trigger", "post"}

\* C31 as stated: a rename returned by a cycle whose dispatch then failed, or
\* found no target, is returned by no later cycle.
C31_LostNeverReturnedAgain ==
    \A k \in FileKeys : ~life[k].relost

\* C31 amended: while the dispatch of a cycle runs, the cursor in memory is
\* already at or above every event handed over, and so is the persisted
\* record unless a write of it failed; an event whose dispatch failed or
\* found no target is not returned again as long as neither the marker in
\* memory nor the persisted marker ever decreases.
C31_HandedOffAfterCursor ==
    /\ Dispatching =>
          \A id \in PairIds(trig.queue) :
             /\ id <= LastAccessOf(cur).EventID
             /\ ~life[cur].writeFailed => id <= restoreLastAccess(files[cur]).EventID
    /\ \A k \in FileKeys :
          (~life[k].fileDecreased /\ ~life[k].memDecreased) => ~life[k].relost

\* C31: an event was lost by its dispatch, a later cycle was served it again
\* and did not return it.
C31_Witness ==
    /\ pc = "select"
    /\ life[cur].lost # {}
    /\ life[cur].lostServed
    /\ ~life[cur].relost
    /\ ~life[cur].fileDecreased /\ ~life[cur].memDecreased

\* C32 as stated: once the interrupt has arrived, main returns: the send of
\* Stop on StopReqCh is received by Run, the deferred send of Run on
\* StopDoneCh is received by main.
C32_ShutdownCompletes ==
    (shut.main # "serving") ~> (shut.main = "exited")

PassKeys == {<<"o", "r">>, <<"o", "q">>}

PolledAgain(k) == []<>(pc = "fetch" /\ cur = k)

C34_RunStartsWithoutFault ==
    /\ pc # "faulted"
    /\ pc # "start" =>
          /\ NumRepo(Accounts) >= 1
          /\ NumRepo(Accounts) = Cardinality(RepoKeys(Repos))

OthersKept ==
    \A k \in RepoKeys(Repos) :
       k # cur => (LastAccessOf(k)' = LastAccessOf(k) /\ files'[k] = files[k])

\* C35: a step of the cycle of one repository, whatever its outcome, leaves
\* the cursor in memory and the persisted record of every other repository
\* as they were, and leaves the set of entries of Repos as it was.
C35_OtherCursorsUnchanged ==
    [][(pc = "fetch" => OthersKept) /\ RepoKeys(Repos') = RepoKeys(Repos)]_vars

\* C35: o/r has just completed a cycle that wrote marker 2 while o/q keeps
\* the marker 1 and the record its own cycle gave it.
C35_Witness ==
    /\ pc \in {"select", "trigger"}
    /\ cur = <<"o", "r">>
    /\ LastAccessOf(<<"o", "r">>).EventID = 2
    /\ LastAccessOf(<<"o", "q">>).EventID = 1
    /\ files[<<"o", "r">>] = RecordContent(LastAccessOf(<<"o", "r">>))
    /\ files[<<"o", "q">>] = RecordContent(LastAccessOf(<<"o", "q">>))

NoWriteFailed == \A k \in FileKeys : ~life[k].writeFailed

\* C36: between two cycles, while no write of a record has failed, the
\* cursor in memory of every repository that has completed a cycle which
\* updated its cursor is the cursor restoreLastAccess reads from its record,
\* so that New builds the same Repos from the records.
C36_RestartEquivalence ==
    (pc = "select" /\ NoWriteFailed) =>
        /\ \A k \in RepoKeys(Repos) :
              life[k].updated => LastAccessOf(k) = restoreLastAccess(files[k])
        /\ New(Accounts, files) = Repos

\* C36: between two cycles, no write has failed, o/r has stored marker 2 with
\* a validator that holds a space and o/q has stored marker 1 without a
\* validator.
C36_Witness ==
    /\ pc = "select"
    /\ NoWriteFailed
    /\ life[<<"o", "r">>].updated
    /\ life[<<"o", "q">>].updated
    /\ LastAccessOf(<<"o", "r">>) = [ETag |-> <<"a", SP, "1">>, EventID |-> 2]
    /\ LastAccessOf(<<"o", "q">>) = [ETag |-> <<>>, EventID |-> 1]

====
